---- MODULE Spec2Model ----
(***************************************************************************)
(* Model of the recommendation service of app.py: the startup load of the  *)
(* listings table and centroid index, the POST /recommend handler          *)
(* (parse -> candidate filter -> similarity ranker -> composite scorer)    *)
(* and the GET /locations handler.                                         *)
(*                                                                         *)
(* Number representation (TLC has integers only):                          *)
(*   latitude / longitude   hundredths of a degree (25.10 -> 2510)          *)
(*   distances              quarter kilometres     (3.0 km -> 12)           *)
(*   similarity/geo/pop     thousandths            (1.0 -> 1000)            *)
(*   final_score            ten-thousandths        (1.0 -> 10000)           *)
(*   popularity, median     half units             (50 -> 100), so that     *)
(*                          the median of an even count is exact            *)
(***************************************************************************)
EXTENDS Integers, Sequences, FiniteSets, TLC

VARIABLES
    df_model,            \* app.py:17,35  the listings table (sequence of rows)
    preprocessor,        \* app.py:16,34  the fitted transform of the artifact
    location_centroids,  \* app.py:18,44  location name -> mean coordinate
    phase,               \* "idle" | "responded": position of the worker
    request,             \* body of the call being answered
    response,            \* what the handler returned
    filtered,            \* base_pool after steps A, 1, 2 (app.py:68-81)
    base_pool,           \* base_pool after the location step (app.py:90-111)
    recs,                \* the scored neighbour subset (app.py:128-144)
    search,              \* <<search_lat, search_lon>> (app.py:87-95)
    steps,               \* the steps of the pipeline the call has run
    memo                 \* observer: the first probe call and its response

vars == <<df_model, preprocessor, location_centroids, phase, request,
          response, filtered, base_pool, recs, search, steps, memo>>

-----------------------------------------------------------------------------
(* Strings.  TLC strings support Len, SubSeq and \o.                        *)

Ch(s, i) == SubSeq(s, i, i)

UpperAlpha == "ABCDEFGHIJKLMNOPQRSTUVWXYZ"
LowerAlpha == "abcdefghijklmnopqrstuvwxyz"
Digits == "0123456789"

IsCharOf(c, alphabet) == \E i \in 1..Len(alphabet) : Ch(alphabet, i) = c

IndexIn(c, alphabet) == CHOOSE i \in 1..Len(alphabet) : Ch(alphabet, i) = c

\* the characters of the model's strings, in code-point order
Ascii == " ()+,.0123456789ABCDEFGHIJKLMNOPQRSTUVWXYZabcdefghijklmnopqrstuvwxyz"

Chars == { Ch(Ascii, i) : i \in 1..Len(Ascii) }

LowerOf ==
    [c \in Chars |->
        IF IsCharOf(c, UpperAlpha) THEN Ch(LowerAlpha, IndexIn(c, UpperAlpha)) ELSE c]

LowerChar(c) == LowerOf[c]

RECURSIVE LowerFrom(_, _)
\* the lower-cased characters of s from position i on
LowerFrom(s, i) == IF i > Len(s) THEN "" ELSE LowerChar(Ch(s, i)) \o LowerFrom(s, i + 1)

RECURSIVE LStrip(_)
LStrip(s) == IF s # "" /\ Ch(s, 1) = " " THEN LStrip(SubSeq(s, 2, Len(s))) ELSE s

RECURSIVE RStrip(_)
RStrip(s) ==
    IF s # "" /\ Ch(s, Len(s)) = " " THEN RStrip(SubSeq(s, 1, Len(s) - 1)) ELSE s

\* str.strip()
Strip(s) == RStrip(LStrip(s))

\* needle in hay, as a literal substring
Contains(hay, needle) ==
    \E j \in 1..(Len(hay) + 1) :
        /\ j + Len(needle) - 1 <= Len(hay)
        /\ SubSeq(hay, j, j + Len(needle) - 1) = needle

RECURSIVE DigitsOf(_)
\* ''.join(filter(str.isdigit, s))
DigitsOf(s) ==
    IF s = "" THEN ""
    ELSE (IF IsCharOf(Ch(s, 1), Digits) THEN Ch(s, 1) ELSE "")
             \o DigitsOf(SubSeq(s, 2, Len(s)))

RECURSIVE ParseInt(_)
\* int(s) of a non-empty string of digits
ParseInt(s) ==
    IF s = "" THEN 0
    ELSE 10 * ParseInt(SubSeq(s, 1, Len(s) - 1)) + (IndexIn(Ch(s, Len(s)), Digits) - 1)

IsNumeric(s) == s # "" /\ \A i \in 1..Len(s) : IsCharOf(Ch(s, i), Digits)

-----------------------------------------------------------------------------
(* Arithmetic                                                              *)

Abs(n) == IF n < 0 THEN -n ELSE n

Min(a, b) == IF a <= b THEN a ELSE b

RECURSIVE IsqrtIn(_, _, _)
\* the largest r in lo..hi with r * r <= n
IsqrtIn(n, lo, hi) ==
    IF lo >= hi THEN lo
    ELSE LET mid == (lo + hi + 1) \div 2
         IN  IF mid * mid <= n THEN IsqrtIn(n, mid, hi) ELSE IsqrtIn(n, lo, mid - 1)

\* floor of the square root (np.sqrt)
Isqrt(n) == IsqrtIn(n, 0, 46340)

RECURSIVE Log2Floor(_)
Log2Floor(n) == IF n < 2 THEN 0 ELSE 1 + Log2Floor(n \div 2)

RECURSIVE Pow2(_)
Pow2(k) == IF k = 0 THEN 1 ELSE 2 * Pow2(k - 1)

\* 10000 * ln(n) for an integer n >= 1: n = 2^k * m with 1 <= m < 2,
\* ln(m) = 2 * atanh((m - 1) / (m + 1)) by its series
Ln(n) ==
    LET k  == Log2Floor(n)
        m  == (n * 10000) \div Pow2(k)
        z  == ((m - 10000) * 10000) \div (m + 10000)
        z2 == (z * z) \div 10000
        z3 == (z2 * z) \div 10000
        z5 == (z3 * z2) \div 10000
        z7 == (z5 * z2) \div 10000
    IN  k * 6931 + 2 * (z + z3 \div 3 + z5 \div 5 + z7 \div 7)

\* 10000 * np.log1p(h / 2) for a value given in half units
Log1pHalf(h) == Ln(h + 2) - Ln(2)

-----------------------------------------------------------------------------
(* The startup artifact: listings.  Prices are in thousands, coordinates   *)
(* in hundredths of a degree; property_type is stored lower-case.          *)

Row(id, price, size, beds, bath, ptype, offer, lat, lon, loc, path, pop, days) ==
    [property_listing_id |-> id, price |-> price, size_sqft |-> size,
     beds_int |-> beds, bath_int |-> bath, property_type |-> ptype,
     offering_type |-> offer, latitude |-> lat, longitude |-> lon,
     location_name |-> loc, full_location_path |-> path,
     smart_popularity_score |-> pop, days_old |-> days]

Catalogue ==
    << Row(1, 120, 800, 2, 2, "apartment", "2", 2508, 5514, "Marina", "Dubai, Marina", 0, 5),
       Row(2, 100, 600, 1, 1, "apartment", "2", 2509, 5515, "Marina", "DUBAI, Marina", 4, 30),
       Row(3, 150, 900, 2, 2, "apartment", "2", 2507, 5513, "JBR", "Dubai, JBR", 0, 30),
       Row(4, 90, 151, 1, 1, "apartment", "2", 2511, 5514, "Marina", "Dubai, Marina", 2, 14),
       Row(5, 110, 500, 2, 1, "apartment", "2", 0, 0, "Marina", "Dubai, Marina", 0, 14),
       Row(6, 80, 700, 2, 2, "apartment", "2", 2450, 5440, "Reem", "Abu Dhabi, Reem", 3, 10),
       Row(7, 60, 150, 1, 1, "apartment", "2", 2507, 5513, "JBR", "Dubai, JBR", 1, 15),
       Row(8, 900, 3000, 4, 5, "villa", "1", 2511, 5513, "Palm", "Dubai, Palm", 1, 3) >>

\* the largest number of rows of a table drawn row by row from the catalogue
MaxRows == 2

\* the largest number of copies of the catalogue in a bulk table
Copies == 5

RECURSIVE SubTable(_, _)
\* the catalogue rows whose position is in S, from position i on, in order
SubTable(S, i) ==
    IF i > Len(Catalogue) THEN << >>
    ELSE (IF i \in S THEN << Catalogue[i] >> ELSE << >>) \o SubTable(S, i + 1)

\* the k-th copy of a catalogue row: another listing of the same community
Variant(r, k) ==
    [r EXCEPT !.property_listing_id = r.property_listing_id + 10 * k,
              !.price = r.price + 7 * k,
              !.beds_int = r.beds_int + (k % 2),
              !.latitude = IF r.latitude = 0 THEN 0 ELSE r.latitude + (k % 3) - 1,
              !.smart_popularity_score =
                  IF r.smart_popularity_score = 0 THEN 0
                  ELSE r.smart_popularity_score + k,
              !.days_old = r.days_old + k]

RECURSIVE BulkTable(_)
BulkTable(c) ==
    IF c = 0 THEN << >>
    ELSE BulkTable(c - 1) \o [i \in 1..Len(Catalogue) |-> Variant(Catalogue[i], c - 1)]

Tables ==
    { SubTable(S, 1) : S \in { T \in SUBSET (1..Len(Catalogue)) : Cardinality(T) <= MaxRows } }
        \cup { BulkTable(c) : c \in {2, Copies} }

\* what joblib.load returns, or "missing" when the file does not exist
Artifacts ==
    { [exists |-> FALSE, data |-> << >>, preprocessor |-> "none"] }
        \cup { [exists |-> TRUE, data |-> t, preprocessor |-> p] :
                 t \in Tables, p \in {"fitted", "rejecting"} }

-----------------------------------------------------------------------------
(* Startup: the centroid index                                             *)

Range(seq) == { seq[i] : i \in 1..Len(seq) }

RECURSIVE SumOver(_, _)
\* sum of field f over a set of rows with distinct ids
SumOver(rows, f) ==
    IF rows = {} THEN 0
    ELSE LET r == CHOOSE x \in rows : TRUE
         IN  (IF f = "latitude" THEN r.latitude ELSE r.longitude)
                 + SumOver(rows \ {r}, f)

\* valid_coords = df_model[(latitude != 0) & (longitude != 0)]
ValidCoords(table) == { r \in Range(table) : r.latitude # 0 /\ r.longitude # 0 }

\* valid_coords.groupby('location_name')[['latitude','longitude']].mean()
\*     .to_dict('index'); the mean is taken to the grid's resolution
BuildCentroids(table) ==
    LET valid == ValidCoords(table)
        names == { r.location_name : r \in valid }
    IN  [n \in names |->
            LET grp == { r \in valid : r.location_name = n }
            IN  [latitude |-> SumOver(grp, "latitude") \div Cardinality(grp),
                 longitude |-> SumOver(grp, "longitude") \div Cardinality(grp)]]

\* df_model.empty
Empty(frame) == Len(frame) = 0

\* frame[c] = values: the frame with column c set to the array `values`
WithColumn(frame, c, values) ==
    [i \in 1..Len(frame) |->
        [k \in DOMAIN frame[i] \cup {c} |-> IF k = c THEN values[i] ELSE frame[i][k]]]

-----------------------------------------------------------------------------
(* Distance.  calculate_haversine in quarter kilometres: for                *)
(* the small angles of one city, a = sin^2(dlat/2) + cos(lat1) cos(lat2)    *)
(* sin^2(dlon/2) and 2 R asin(sqrt(a)) reduce to the root of the squared     *)
(* north-south and east-west offsets, with R = 6371 km:                     *)
(* 0.01 degree of latitude is 1.112 km, and of longitude at 25 N 1.007 km.  *)

KmPerLat == 1112

KmPerLon == 1007

calculate_haversine(lat1, lon1, lat2, lon2) ==
    LET dy == (KmPerLat * Abs(lat2 - lat1)) \div 250
        dx == (KmPerLon * Abs(lon2 - lon1)) \div 250
    IN  Isqrt(dy * dy + dx * dx)

-----------------------------------------------------------------------------
(* Request bodies.  A JSON value is <<tag, text>>: a number or a string by  *)
(* its text, null, or a key that is absent.                                 *)

Absent == << "absent", "" >>
Null == << "null", "" >>
Num(text) == << "num", text >>
Str(text) == << "str", text >>

Object(price, bedrooms, ptype, offer, loc) ==
    [kind |-> "object", price |-> price, bedrooms |-> bedrooms,
     property_type |-> ptype, offering_type |-> offer, location_filter |-> loc]

\* a body that is not a JSON object: JSON null, a JSON array, malformed JSON
NonObject(kind) ==
    [kind |-> kind, price |-> Absent, bedrooms |-> Absent,
     property_type |-> Absent, offering_type |-> Absent, location_filter |-> Absent]

LocationFilters ==
    { Absent, Null, Str(""), Str("All Locations"), Str("Dubai"),
      Str("Marina"), Str("JBR"), Str("Palm"), Str("marina"), Str("Nowhere"),
      Str("J.R"), Str("Mar+ina"), Str("(JBR)"), Str("JBR ("), Str("+1"), Num("7") }

Offerings == { Str("Rent"), Str(" LEASE "), Num("2"), Str("sale"), Absent }

Bodies ==
    { Object(Num("120"), Str("2 Beds"), Str("Apartment"), o, l) :
          o \in Offerings, l \in LocationFilters }
      \cup { Object(p, b, Str(" Villa "), Str("Sale"), l) :
                 p \in { Num("900"), Str("900"), Absent },
                 b \in { Str("Studio"), Num("4") },
                 l \in { Absent, Str("Palm") } }
      \cup { Object(p, Null, t, Str("rent"), Absent) :
                 p \in { Str("abc"), Null, Num("100") },
                 t \in { Str("apartment"), Absent, Null } }
      \cup { NonObject(k) : k \in {"null", "array", "invalid"} }

\* str(v)
PyStr(v) == IF v[1] = "null" THEN "None" ELSE v[2]

\* data.get(key, default)
Get(data, key, default) == IF data[key] = Absent THEN default ELSE data[key]

\* bool(v)
Truthy(v) ==
    CASE v[1] = "str" -> v[2] # ""
      [] v[1] = "num" -> v[2] # "0"
      [] OTHER -> FALSE

-----------------------------------------------------------------------------
(* str.lower(), with the texts of the listings and of the request bodies   *)
(* lower-cased once                                                        *)

KnownTexts ==
    { r.full_location_path : r \in Range(Catalogue) }
        \cup { b[f][2] : b \in Bodies,
                         f \in {"property_type", "offering_type", "location_filter"} }
        \cup { "None", "unknown" }

Lowered == [s \in KnownTexts |-> LowerFrom(s, 1)]

Lower(s) == IF s \in KnownTexts THEN Lowered[s] ELSE LowerFrom(s, 1)

-----------------------------------------------------------------------------
(* Regular expressions, as pandas str.contains(pat, case=False) uses them  *)
(* (regex=True is its default).  The fragment: literal characters, ".",    *)
(* "+" after a single character or ".", and parentheses used for grouping  *)
(* only.                                                                   *)

RECURSIVE ParenDepthOk(_, _, _)
\* balanced parentheses, scanning from position i with `depth` open groups
ParenDepthOk(p, i, depth) ==
    IF i > Len(p) THEN depth = 0
    ELSE IF Ch(p, i) = "(" THEN ParenDepthOk(p, i + 1, depth + 1)
    ELSE IF Ch(p, i) = ")" THEN depth > 0 /\ ParenDepthOk(p, i + 1, depth - 1)
    ELSE ParenDepthOk(p, i + 1, depth)

\* a "+" needs something to repeat
NothingToRepeat(p) ==
    \E i \in 1..Len(p) :
        /\ Ch(p, i) = "+"
        /\ (i = 1 \/ Ch(p, i - 1) = "(")

\* re.compile(p) raises re.error
RegexError(p) == ~ParenDepthOk(p, 1, 0) \/ NothingToRepeat(p)

RECURSIVE DropParens(_)
DropParens(p) ==
    IF p = "" THEN ""
    ELSE (IF Ch(p, 1) \in {"(", ")"} THEN "" ELSE Ch(p, 1))
             \o DropParens(SubSeq(p, 2, Len(p)))

AtomMatches(atom, c) == atom = "." \/ atom = c

RECURSIVE MatchHere(_, _, _, _)
\* the pattern from position i matches the text starting at position j
MatchHere(p, i, s, j) ==
    IF i > Len(p) THEN TRUE
    ELSE IF i + 1 <= Len(p) /\ Ch(p, i + 1) = "+"
    THEN \E k \in 1..(Len(s) - j + 1) :
            /\ \A m \in j..(j + k - 1) : AtomMatches(Ch(p, i), Ch(s, m))
            /\ MatchHere(p, i + 2, s, j + k)
    ELSE /\ j <= Len(s)
         /\ AtomMatches(Ch(p, i), Ch(s, j))
         /\ MatchHere(p, i + 1, s, j + 1)

\* re.search(p, s, re.IGNORECASE) is not None, for a pattern that compiles
RegexSearch(p, s) ==
    LET pat == DropParens(Lower(p))
        txt == Lower(s)
    IN  \E j \in 1..(Len(txt) + 1) : MatchHere(pat, 1, txt, j)

-----------------------------------------------------------------------------
(* Exceptions.  A step yields a value with exc = "none" or names the       *)
(* exception it raised.                                                    *)

Raise(exc, msg) == [exc |-> exc, message |-> msg]

\* float(v) raises
FloatError(v) ==
    CASE v[1] = "null" -> "TypeError"
      [] v[1] = "str" /\ ~IsNumeric(v[2]) -> "ValueError"
      [] OTHER -> "none"

\* lines 57-65
Parse(data) ==
    IF data.kind = "invalid" THEN Raise("BadRequest", "400 Bad Request")
    ELSE IF data.kind \in {"null", "array"}
    THEN Raise("AttributeError", "object has no attribute 'get'")
    ELSE LET pv == Get(data, "price", Num("0"))
             raw_beds == PyStr(Get(data, "bedrooms", Str("0")))
             raw_type == Strip(Lower(PyStr(Get(data, "property_type", Str("unknown")))))
             raw_offer == Strip(Lower(PyStr(Get(data, "offering_type", Str("unknown")))))
         IN  IF FloatError(pv) = "TypeError"
             THEN Raise("TypeError", "float() argument must be a string or a real number")
             ELSE IF FloatError(pv) = "ValueError"
             THEN Raise("ValueError", "could not convert string to float")
             ELSE [exc |-> "none",
                   price |-> ParseInt(pv[2]),
                   beds_int |-> IF DigitsOf(raw_beds) # ""
                                THEN ParseInt(DigitsOf(raw_beds)) ELSE 0,
                   raw_type |-> raw_type,
                   target_offer |-> IF raw_offer \in {"rent", "lease", "2"}
                                    THEN "2" ELSE "1"]

-----------------------------------------------------------------------------
(* A. Candidate filter                                                     *)

\* the minimum floor area of line 81
MinSizeSqft == 150

\* the smart radius of line 105, 3.0 km, in quarter kilometres
RadiusQkm == 12

\* the default search centre of lines 87-88
DefaultLat == 2510

DefaultLon == 5520

\* lines 68-71
TypeFilter(table, q) ==
    LET Keep(r) == r.offering_type = q.target_offer /\ r.property_type = q.raw_type
    IN  SelectSeq(table, Keep)

\* lines 74-77
RegionFilter(pool) ==
    LET Keep(r) == Contains(Lower(r.full_location_path), "dubai")
    IN  IF ~Empty(pool) THEN SelectSeq(pool, Keep) ELSE pool

\* the size filter with the threshold itself let through
SizeFilterInclusive(pool) ==
    LET Keep(r) == r.size_sqft >= MinSizeSqft
    IN  IF ~Empty(pool) THEN SelectSeq(pool, Keep) ELSE pool

\* lines 80-81
SizeFilter(pool) ==
    LET Keep(r) == r.size_sqft > MinSizeSqft
    IN  IF ~Empty(pool) THEN SelectSeq(pool, Keep) ELSE pool

\* line 90
NamedLocation(req_loc) ==
    Truthy(req_loc) /\ req_loc # Str("All Locations") /\ req_loc # Str("Dubai")

\* line 92: req_loc in location_centroids
KnownCentroid(req_loc, centroids) ==
    req_loc[1] = "str" /\ req_loc[2] \in DOMAIN centroids

\* the radius test with the wider radius of 5.0 km
WithinWiderRadius(r) == r.dist_to_center <= 20

\* line 105
WithinRadius(r) == r.dist_to_center <= RadiusQkm

\* lines 94-105
RadiusFilter(pool, lat, lon) ==
    LET dist == [i \in 1..Len(pool) |->
                    calculate_haversine(lat, lon, pool[i].latitude, pool[i].longitude)]
    IN  SelectSeq(WithColumn(pool, "dist_to_center", dist), WithinRadius)

\* lines 109-111: str.contains(req_loc, case=False, na=False)
TextMatches(req_loc, path) == RegexSearch(req_loc, path)

TextFilter(pool, req_loc) ==
    LET Keep(r) == TextMatches(req_loc, r.full_location_path)
    IN  SelectSeq(pool, Keep)

\* lines 84-111
LocationStep(pool, req_loc, centroids) ==
    IF ~NamedLocation(req_loc)
    THEN [exc |-> "none", pool |-> pool, search |-> << DefaultLat, DefaultLon >>]
    ELSE IF KnownCentroid(req_loc, centroids)
    THEN LET c == centroids[req_loc[2]]
         IN  [exc |-> "none",
              pool |-> RadiusFilter(pool, c.latitude, c.longitude),
              search |-> << c.latitude, c.longitude >>]
    ELSE IF req_loc[1] # "str"
    THEN Raise("TypeError", "first argument must be string or compiled pattern")
    ELSE IF RegexError(req_loc[2])
    THEN Raise("re.error", "missing ), unterminated subpattern or nothing to repeat")
    ELSE [exc |-> "none", pool |-> TextFilter(pool, req_loc[2]),
          search |-> << DefaultLat, DefaultLon >>]

-----------------------------------------------------------------------------
(* Sorting: DataFrame.sort_values(ascending=False) and the neighbour order *)

RECURSIVE InsertDesc(_, _, _)
\* r inserted into `sorted` (non-increasing in field f) after its equals
InsertDesc(sorted, r, f) ==
    IF sorted = << >> THEN << r >>
    ELSE IF Head(sorted)[f] >= r[f]
    THEN << Head(sorted) >> \o InsertDesc(Tail(sorted), r, f)
    ELSE << r >> \o sorted

RECURSIVE SortDesc(_, _)
SortDesc(frame, f) ==
    IF frame = << >> THEN << >>
    ELSE InsertDesc(SortDesc(SubSeq(frame, 1, Len(frame) - 1), f), frame[Len(frame)], f)

\* DataFrame.head(n)
HeadN(frame, n) == SubSeq(frame, 1, Min(n, Len(frame)))

-----------------------------------------------------------------------------
(* C. Similarity ranker                                                    *)

\* n_neighbors of line 125
MaxNeighbors == 20

\* preprocessor.transform(record): the artifact's fitted transform, here the
\* numeric features of the record; a transform that rejects raises
Transform(rec) == << rec.price, rec.size_sqft, rec.beds_int, rec.bath_int >>

Dot(u, v) == u[1] * v[1] + u[2] * v[2] + u[3] * v[3] + u[4] * v[4]

\* 1000 * (1 - cosine distance); a zero vector has similarity 0
CosineSimilarity(u, v) ==
    LET nu == Isqrt(Dot(u, u))
        nv == Isqrt(Dot(v, v))
    IN  IF nu * nv = 0 THEN 0 ELSE (1000 * Dot(u, v)) \div (nu * nv)

\* lines 117-120
InputRow(q) ==
    [price |-> q.price, size_sqft |-> 0, beds_int |-> q.beds_int, bath_int |-> 1,
     property_type |-> q.raw_type, offering_type |-> q.target_offer]

\* line 125: n_neighbors
NeighborCount(pool) == Min(Len(pool), MaxNeighbors)

\* lines 125-129: the nearest neighbours of the query, nearest first, each
\* with similarity_score = 1 - dist
Neighbors(pool, q) ==
    LET sims == [i \in 1..Len(pool) |->
                    CosineSimilarity(Transform(InputRow(q)), Transform(pool[i]))]
    IN  HeadN(SortDesc(WithColumn(pool, "similarity_score", sims), "similarity_score"),
              NeighborCount(pool))

-----------------------------------------------------------------------------
(* D. Composite scorer                                                     *)

\* the age limit of the cold-start boost, line 141
ColdStartDays == 14

\* the median used when no listing has positive popularity, line 138
DefaultMedian == 50

\* head(5), line 154
TopN == 5

RECURSIVE InsertAsc(_, _)
InsertAsc(sorted, x) ==
    IF sorted = << >> THEN << x >>
    ELSE IF Head(sorted) <= x THEN << Head(sorted) >> \o InsertAsc(Tail(sorted), x)
    ELSE << x >> \o sorted

RECURSIVE PositivePops(_)
\* line 137: the positive smart_popularity_score values, sorted ascending
PositivePops(table) ==
    IF table = << >> THEN << >>
    ELSE LET rest == PositivePops(Tail(table))
             v == Head(table).smart_popularity_score
         IN  IF v > 0 THEN InsertAsc(rest, v) ELSE rest

\* the median replaced by its default whatever the table holds
PopMedianAlwaysDefault(table) == 2 * DefaultMedian

\* line 138: pop_med, in half units
PopMedian(table) ==
    LET s == PositivePops(table)
        n == Len(s)
    IN  IF n = 0 THEN 2 * DefaultMedian
        ELSE IF n % 2 = 1 THEN 2 * s[(n + 1) \div 2]
        ELSE s[n \div 2] + s[n \div 2 + 1]

RECURSIVE MaxPop(_)
\* line 139: df_model['smart_popularity_score'].max() of a non-empty table
MaxPop(table) ==
    IF Len(table) = 1 THEN table[1].smart_popularity_score
    ELSE LET m == MaxPop(Tail(table))
         IN  IF table[1].smart_popularity_score > m
             THEN table[1].smart_popularity_score ELSE m

\* the cold-start condition with the age limit excluded
ColdStartBeforeLimit(r) == r.days_old < ColdStartDays /\ r.smart_popularity_score = 0

\* line 141, the condition of the lambda
ColdStart(r) == r.days_old <= ColdStartDays /\ r.smart_popularity_score = 0

\* line 141, in half units
BoostedPop(r, pop_med) ==
    IF ColdStart(r) THEN pop_med ELSE 2 * r.smart_popularity_score

\* line 142, in thousandths
PopScore(boosted_pop, max_pop) ==
    IF max_pop > 0
    THEN (1000 * Log1pHalf(boosted_pop)) \div Log1pHalf(2 * max_pop)
    ELSE 0

\* line 134, in thousandths: 1 / (dist_km + 1)
GeoScore(dist_qkm) == 4000 \div (dist_qkm + 4)

\* line 144, in ten-thousandths
FinalScore(r) == 4 * r.similarity_score + 3 * r.geo_score + 3 * r.pop_score

\* line 133
WithDistKm(frame, center) ==
    WithColumn(frame, "dist_km",
               [i \in 1..Len(frame) |->
                   calculate_haversine(center[1], center[2],
                                       frame[i].latitude, frame[i].longitude)])

\* line 134
WithGeoScore(frame) ==
    WithColumn(frame, "geo_score", [i \in 1..Len(frame) |-> GeoScore(frame[i].dist_km)])

\* line 141
WithBoostedPop(frame, pop_med) ==
    WithColumn(frame, "boosted_pop",
               [i \in 1..Len(frame) |-> BoostedPop(frame[i], pop_med)])

\* line 142
WithPopScore(frame, max_pop) ==
    WithColumn(frame, "pop_score",
               [i \in 1..Len(frame) |-> PopScore(frame[i].boosted_pop, max_pop)])

\* line 144
WithFinalScore(frame) ==
    WithColumn(frame, "final_score", [i \in 1..Len(frame) |-> FinalScore(frame[i])])

\* lines 133-144
Score(neighbors, table, center) ==
    WithFinalScore(
      WithPopScore(
        WithBoostedPop(WithGeoScore(WithDistKm(neighbors, center)), PopMedian(table)),
        MaxPop(table)))

\* lines 147-151
RichCols ==
    { "property_listing_id", "final_score", "property_title", "price", "beds_int",
      "bath_int", "size_sqft", "location_name", "full_location_path",
      "property_type", "offering_type", "furnished_flag", "completion_status",
      "quality_score", "days_old", "view_count", "impression_count",
      "popularity_score", "smart_popularity_score", "super_agent_score" }

\* line 152 and the projection of line 154
Project(r) == [c \in RichCols \cap DOMAIN r |-> r[c]]

\* the first rows of the scored frame, without sorting it
ResultsUnsorted(scored) ==
    LET top == HeadN(scored, TopN)
    IN  [i \in 1..Len(top) |-> Project(top[i])]

\* line 154
Results(scored) ==
    LET top == HeadN(SortDesc(scored, "final_score"), TopN)
    IN  [i \in 1..Len(top) |-> Project(top[i])]

-----------------------------------------------------------------------------
(* The /recommend handler                                                  *)

ErrorResponse(msg) == [status |-> "error", message |-> msg, code |-> 500]

SuccessResponse(results) ==
    [status |-> "success", count |-> Len(results), data |-> results, code |-> 200]

\* an exception that left the handler: the framework's own failure page
UnhandledFault(exc) == [status |-> "unhandled", message |-> exc, code |-> 500]

\* the classes of the model's exceptions, all subclasses of Exception
ExceptionClasses == { "BadRequest", "AttributeError", "TypeError", "ValueError", "re.error" }

\* a handler that catches ValueError only
CaughtValueErrorOnly(exc) == exc = "ValueError"

\* line 157: except Exception
Caught(exc) == exc \in ExceptionClasses

\* the handler's locals before any step has run
NoLocals ==
    [steps |-> {}, filtered |-> << >>, base_pool |-> << >>, recs |-> << >>,
     search |-> << DefaultLat, DefaultLon >>]

Locals(steps_run, pool3, pool4, scored, center) ==
    [steps |-> steps_run, filtered |-> pool3, base_pool |-> pool4, recs |-> scored,
     search |-> center]

Raised(e, locals) == [raised |-> e, returned |-> << >>, locals |-> locals]

Returned(r, locals) == [raised |-> Raise("none", ""), returned |-> r, locals |-> locals]

\* lines 131-155
ScoreStage(pool3, loc, scored) ==
    Returned(SuccessResponse(Results(scored)),
             Locals({"parse", "filter", "location", "rank", "score"},
                    pool3, loc.pool, scored, loc.search))

\* lines 113-129; a transform that rejects its input raises at line 122
RankStage(table, prep, q, pool3, loc) ==
    IF Empty(loc.pool)
    THEN Returned(SuccessResponse(<< >>),
                  Locals({"parse", "filter", "location"}, pool3, loc.pool, << >>, loc.search))
    ELSE IF prep # "fitted"
    THEN Raised(Raise("ValueError", "columns are missing"),
                Locals({"parse", "filter", "location", "rank"},
                       pool3, loc.pool, << >>, loc.search))
    ELSE ScoreStage(pool3, loc, Score(Neighbors(loc.pool, q), table, loc.search))

\* lines 84-111
LocationStage(table, prep, q, pool3, loc) ==
    IF loc.exc # "none"
    THEN Raised(loc, Locals({"parse", "filter"}, pool3, << >>, << >>,
                            << DefaultLat, DefaultLon >>))
    ELSE RankStage(table, prep, q, pool3, loc)

\* lines 67-84
FilterStage(table, prep, centroids, data, q, pool3) ==
    LocationStage(table, prep, q, pool3,
                  LocationStep(pool3, Get(data, "location_filter", Null), centroids))

\* lines 57-65
ParseStage(table, prep, centroids, data, q) ==
    IF q.exc # "none"
    THEN Raised(q, [NoLocals EXCEPT !.steps = {"parse"}])
    ELSE FilterStage(table, prep, centroids, data, q,
                     SizeFilter(RegionFilter(TypeFilter(table, q))))

\* lines 57-155, the body of the try block: the value returned or the
\* exception raised, with the locals as they stand at that point
TryBody(table, prep, centroids, data) ==
    ParseStage(table, prep, centroids, data, Parse(data))

\* lines 157-159
Outcome(t) ==
    IF t.raised.exc = "none" THEN [response |-> t.returned, locals |-> t.locals]
    ELSE IF Caught(t.raised.exc)
    THEN [response |-> ErrorResponse(t.raised.message), locals |-> t.locals]
    ELSE [response |-> UnhandledFault(t.raised.exc), locals |-> t.locals]

\* the handler without the check of line 54
recommendUnguarded(table, prep, centroids, data) ==
    Outcome(TryBody(table, prep, centroids, data))

\* lines 53-159
recommend(table, prep, centroids, data) ==
    IF Empty(table)
    THEN [response |-> ErrorResponse("Model not loaded."), locals |-> NoLocals]
    ELSE Outcome(TryBody(table, prep, centroids, data))

\* the columns of the pool written into the rows of the table they came from
TableAfterInPlace(table, out) ==
    [i \in 1..Len(table) |->
        IF \E j \in 1..Len(out.locals.base_pool) :
               out.locals.base_pool[j].property_listing_id = table[i].property_listing_id
        THEN out.locals.base_pool[
                 CHOOSE j \in 1..Len(out.locals.base_pool) :
                     out.locals.base_pool[j].property_listing_id
                         = table[i].property_listing_id]
        ELSE table[i]]

\* the listings table as the handler leaves it: line 71 takes a copy, so
\* the columns the handler adds are added to the copy
TableAfter(table, out) == table

-----------------------------------------------------------------------------
(* The /locations handler                                                  *)

RECURSIVE StrLess(_, _)
\* a < b in Python's string order
StrLess(a, b) ==
    IF b = "" THEN FALSE
    ELSE IF a = "" THEN TRUE
    ELSE IF Ch(a, 1) = Ch(b, 1) THEN StrLess(SubSeq(a, 2, Len(a)), SubSeq(b, 2, Len(b)))
    ELSE IndexIn(Ch(a, 1), Ascii) < IndexIn(Ch(b, 1), Ascii)

RECURSIVE SortedNames(_)
\* sorted(list(names))
SortedNames(names) ==
    IF names = {} THEN << >>
    ELSE LET least == CHOOSE n \in names : \A m \in names \ {n} : StrLess(n, m)
         IN  << least >> \o SortedNames(names \ {least})

\* lines 163-168
get_locations(centroids) == [locations |-> SortedNames(DOMAIN centroids)]

-----------------------------------------------------------------------------
(* The service                                                             *)

NoRequest == NonObject("none")

NoResponse == [status |-> "none"]

NoMemo == [set |-> FALSE, between |-> FALSE, request |-> NoRequest, response |-> NoResponse]

\* the call whose first answer the observer keeps
Probes == { Object(Num("120"), Str("2 Beds"), Str("Apartment"), Str("Rent"), Str("Marina")) }

\* the observer after a call: it keeps the first answer to a probe call and
\* notes that another call has been answered since
Observe(m, data, resp) ==
    IF ~m.set
    THEN IF data \in Probes
         THEN [set |-> TRUE, between |-> FALSE, request |-> data, response |-> resp]
         ELSE m
    ELSE IF data # m.request THEN [m EXCEPT !.between = TRUE] ELSE m

\* lines 29-49
Startup(artifact) ==
    /\ df_model = artifact.data
    /\ preprocessor = artifact.preprocessor
    /\ location_centroids = BuildCentroids(artifact.data)

Init ==
    /\ \E artifact \in Artifacts : Startup(artifact)
    /\ phase = "idle"
    /\ request = NoRequest
    /\ response = NoResponse
    /\ filtered = << >>
    /\ base_pool = << >>
    /\ recs = << >>
    /\ search = << DefaultLat, DefaultLon >>
    /\ steps = {}
    /\ memo = NoMemo

\* POST /recommend with body `data`; with `observe`, the observer keeps the
\* first answer to a probe call
Recommend(data, observe) ==
    /\ phase = "idle"
    /\ LET out == recommend(df_model, preprocessor, location_centroids, data)
       IN  /\ response' = out.response
           /\ filtered' = out.locals.filtered
           /\ base_pool' = out.locals.base_pool
           /\ recs' = out.locals.recs
           /\ search' = out.locals.search
           /\ steps' = out.locals.steps
           /\ df_model' = TableAfter(df_model, out)
           /\ memo' = IF observe THEN Observe(memo, data, out.response) ELSE memo
    /\ request' = data
    /\ phase' = "responded"
    /\ UNCHANGED << preprocessor, location_centroids >>

\* GET /locations
GetLocations ==
    /\ phase = "idle"
    /\ response' = get_locations(location_centroids)
    /\ request' = NoRequest
    /\ phase' = "responded"
    /\ memo' = IF memo.set THEN [memo EXCEPT !.between = TRUE] ELSE memo
    /\ UNCHANGED << df_model, preprocessor, location_centroids, filtered, base_pool,
                    recs, search, steps >>

\* the response is sent and the call's locals are dropped
Deliver ==
    /\ phase = "responded"
    /\ phase' = "idle"
    /\ request' = NoRequest
    /\ response' = NoResponse
    /\ filtered' = << >>
    /\ base_pool' = << >>
    /\ recs' = << >>
    /\ search' = << DefaultLat, DefaultLon >>
    /\ steps' = {}
    /\ UNCHANGED << df_model, preprocessor, location_centroids, memo >>

Next ==
    \/ \E data \in Bodies : Recommend(data, FALSE)
    \/ GetLocations
    \/ Deliver

Spec == Init /\ [][Next]_vars

NextObserved ==
    \/ \E data \in Bodies : Recommend(data, TRUE)
    \/ GetLocations
    \/ Deliver

\* the same service, with the observer of repeated calls
SpecObserved == Init /\ [][NextObserved]_vars

-----------------------------------------------------------------------------
(* Properties                                                              *)

\* the handler of /recommend has answered `request`
RecommendAnswered == phase = "responded" /\ request.kind # "none"

Loaded == ~Empty(df_model)

Ids(frame) == { frame[i].property_listing_id : i \in 1..Len(frame) }

QueryLocation == Get(request, "location_filter", Null)

\* a query as the interface describes it: an object with a number for a
\* price and, if any, a text for the location filter
WellFormedQuery ==
    /\ request.kind = "object"
    /\ FloatError(Get(request, "price", Num("0"))) = "none"
    /\ QueryLocation[1] \in {"null", "str"}

\* C1: with an empty listings table every recommend call, whatever its
\* body, returns the error "Model not loaded." and runs no step of the
\* pipeline.
C1_ModelNotLoaded ==
    (RecommendAnswered /\ Empty(df_model))
        => /\ response = ErrorResponse("Model not loaded.")
           /\ steps = {}
           /\ filtered = << >> /\ base_pool = << >> /\ recs = << >>

\* an artifact that exists but holds no rows, and a malformed body
C1_Witness ==
    /\ RecommendAnswered /\ Empty(df_model)
    /\ preprocessor = "fitted"
    /\ request.kind = "invalid"

\* C2: with a loaded table a recommend call never ends in an unhandled
\* fault; a non-object body, a non-numeric price, a rejecting transform and
\* a failure of the location step all end in {status: "error", message};
\* after an error response the worker is idle again with the startup state
\* as it was, and an idle worker answers a call.
C2_FailuresAreStructured ==
    /\ [](RecommendAnswered /\ Loaded =>
            /\ response.status \in {"success", "error"}
            /\ response.status = "error" => DOMAIN response = {"status", "message", "code"}
            /\ request.kind \in {"null", "array", "invalid"} => response.status = "error"
            /\ (request.kind = "object" /\ FloatError(Get(request, "price", Num("0"))) # "none")
                   => response.status = "error"
            /\ (preprocessor = "rejecting" /\ "rank" \in steps) => response.status = "error"
            /\ ("filter" \in steps /\ "location" \notin steps) => response.status = "error")
    /\ [][(RecommendAnswered /\ Loaded /\ response.status = "error")
             => /\ phase' = "idle"
                /\ UNCHANGED << df_model, preprocessor, location_centroids >>]_vars
    /\ [](phase = "idle" => ENABLED (\E data \in Bodies : Recommend(data, FALSE)))

\* the transform rejected the records of a non-empty pool
C2_Witness ==
    /\ RecommendAnswered /\ Loaded
    /\ preprocessor = "rejecting" /\ "rank" \in steps
    /\ response.status = "error"

\* the candidate pool of a call that got as far as filtering is empty
PoolEmpty ==
    /\ "filter" \in steps
    /\ \/ filtered = << >>
       \/ ("location" \in steps /\ base_pool = << >>)

\* C3 (as claimed): a well-formed query whose candidate pool is empty is
\* answered {status: "success", count: 0, data: []}, never an error, and
\* is neither ranked nor scored.
C3_EmptyPoolIsSuccess ==
    (RecommendAnswered /\ Loaded /\ WellFormedQuery /\ PoolEmpty)
        => /\ response = SuccessResponse(<< >>)
           /\ steps \cap {"rank", "score"} = {}

\* C4: a successful response has at most 5 records, in non-increasing
\* order of final_score, count is their number, and they are the
\* highest-scoring members of the neighbour subset.
C4_TopFive ==
    (RecommendAnswered /\ response.status = "success")
        => LET data == response.data
               shown == Ids(data)
           IN  /\ Len(data) <= TopN
               /\ response.count = Len(data)
               /\ Len(data) = Min(TopN, Len(recs))
               /\ \A i \in 1..(Len(data) - 1) : data[i].final_score >= data[i + 1].final_score
               /\ \A i \in 1..Len(data) :
                      \E j \in 1..Len(recs) :
                          /\ recs[j].property_listing_id = data[i].property_listing_id
                          /\ recs[j].final_score = data[i].final_score
               /\ \A j \in 1..Len(recs) :
                      recs[j].property_listing_id \notin shown
                          => \A i \in 1..Len(data) : recs[j].final_score <= data[i].final_score

\* more than 5 scored neighbours with different scores, cut at 20
C4_Witness ==
    /\ RecommendAnswered /\ response.status = "success"
    /\ Len(base_pool) > MaxNeighbors
    /\ Len(recs) = MaxNeighbors
    /\ response.count = TopN
    /\ response.data[1].final_score > response.data[TopN].final_score

\* the query's offering value and property type, as the claim states them
QueryOffering == Strip(Lower(PyStr(Get(request, "offering_type", Str("unknown")))))

QueryType == Strip(Lower(PyStr(Get(request, "property_type", Str("unknown")))))

\* C5: every record of a successful response has the query's mapped
\* offering code ("2" for rent, lease, 2; "1" otherwise) and its property
\* type, a path that contains "dubai" whatever the case, and a floor area
\* above 150.
C5_FixedFilters ==
    (RecommendAnswered /\ response.status = "success")
        => \A i \in 1..Len(response.data) :
              LET r == response.data[i]
              IN  /\ r.offering_type = (IF QueryOffering \in {"rent", "lease", "2"}
                                        THEN "2" ELSE "1")
                  /\ r.property_type = QueryType
                  /\ Contains(Lower(r.full_location_path), "dubai")
                  /\ r.size_sqft > 150

\* a table with rows that fail each predicate, and a non-empty answer
C5_Witness ==
    /\ RecommendAnswered /\ response.status = "success"
    /\ response.count > 0
    /\ request.offering_type = Str(" LEASE ")
    /\ \E i \in 1..Len(df_model) : df_model[i].size_sqft = 150
    /\ \E i \in 1..Len(df_model) : df_model[i].full_location_path = "Abu Dhabi, Reem"
    /\ \E i \in 1..Len(df_model) : df_model[i].property_type = "villa"
    /\ \E i \in 1..Len(response.data) : response.data[i].full_location_path = "DUBAI, Marina"

\* the call took the known-centroid branch of the location step
CentroidBranch ==
    /\ RecommendAnswered /\ "location" \in steps
    /\ NamedLocation(QueryLocation)
    /\ KnownCentroid(QueryLocation, location_centroids)

DistanceTo(center, r) ==
    calculate_haversine(center.latitude, center.longitude, r.latitude, r.longitude)

\* C6: in the known-centroid branch the pool is split by the 3.0 km
\* radius: a retained row is within it, a dropped row with a valid
\* coordinate is beyond it, and every record of the response is within it.
C6_RadiusPartition ==
    CentroidBranch
        => LET center == location_centroids[QueryLocation[2]]
           IN  /\ search = << center.latitude, center.longitude >>
               /\ \A i \in 1..Len(base_pool) :
                      /\ base_pool[i].dist_to_center = DistanceTo(center, base_pool[i])
                      /\ base_pool[i].dist_to_center <= 12      \* 3.0 km
               /\ \A i \in 1..Len(filtered) :
                      (/\ filtered[i].latitude # 0 /\ filtered[i].longitude # 0
                       /\ filtered[i].property_listing_id \notin Ids(base_pool))
                          => DistanceTo(center, filtered[i]) > 12
               /\ Ids(base_pool) \subseteq Ids(filtered)
               /\ response.status = "success"
                      => \A i \in 1..Len(response.data) :
                            \E j \in 1..Len(recs) :
                                /\ recs[j].property_listing_id
                                       = response.data[i].property_listing_id
                                /\ recs[j].dist_km <= 12

\* rows kept, rows with a valid coordinate dropped, and an answer
C6_Witness ==
    /\ CentroidBranch
    /\ response.status = "success" /\ response.count > 0
    /\ \E i \in 1..Len(filtered) :
          /\ filtered[i].latitude # 0
          /\ filtered[i].property_listing_id \notin Ids(base_pool)
    /\ \E i \in 1..Len(filtered) :
          /\ filtered[i].latitude = 0
          /\ filtered[i].property_listing_id \notin Ids(base_pool)

\* the query names a location that the centroid index does not know
FallbackQuery ==
    /\ RecommendAnswered /\ "filter" \in steps
    /\ QueryLocation[1] = "str"
    /\ NamedLocation(QueryLocation)
    /\ ~KnownCentroid(QueryLocation, location_centroids)

\* C7 (as claimed): for a location the index does not know, the location
\* step keeps exactly the rows whose path contains the filter text as a
\* literal substring, whatever the case and whatever punctuation the text
\* has, applies no distance filter and leaves the search centre at the
\* default.
C7_LiteralSubstringFallback ==
    FallbackQuery
        => /\ "location" \in steps
           /\ LET Keep(r) == Contains(Lower(r.full_location_path), Lower(QueryLocation[2]))
              IN  base_pool = SelectSeq(filtered, Keep)
           /\ search = << DefaultLat, DefaultLon >>

\* the rows of the full table with positive smart-popularity
PositiveRows == { r \in Range(df_model) : r.smart_popularity_score > 0 }

\* the k-th smallest positive smart-popularity of the full table
KthPositive(k) ==
    CHOOSE v \in { r.smart_popularity_score : r \in PositiveRows } :
        /\ Cardinality({ r \in PositiveRows : r.smart_popularity_score < v }) < k
        /\ Cardinality({ r \in PositiveRows : r.smart_popularity_score <= v }) >= k

\* the global popularity median in half units, 50 when there is no
\* positive value
GlobalMedian ==
    LET n == Cardinality(PositiveRows)
    IN  IF n = 0 THEN 100
        ELSE IF n % 2 = 1 THEN 2 * KthPositive((n + 1) \div 2)
        ELSE KthPositive(n \div 2) + KthPositive(n \div 2 + 1)

\* C8: a neighbour at most 14 days old with smart-popularity 0 gets the
\* global popularity median as boosted_pop; every other neighbour keeps its
\* own smart-popularity.
C8_ColdStartBoost ==
    (RecommendAnswered /\ "score" \in steps)
        => \A i \in 1..Len(recs) :
              LET r == recs[i]
              IN  IF r.days_old <= 14 /\ r.smart_popularity_score = 0
                  THEN r.boosted_pop = GlobalMedian
                  ELSE r.boosted_pop = 2 * r.smart_popularity_score

\* one answer with a boosted neighbour, an old neighbour of popularity 0,
\* a new neighbour of positive popularity, and a median between two values
C8_Witness ==
    /\ RecommendAnswered /\ "score" \in steps
    /\ Cardinality(PositiveRows) % 2 = 0
    /\ GlobalMedian % 2 = 1
    /\ \E i \in 1..Len(recs) :
          /\ recs[i].days_old = 14 /\ recs[i].smart_popularity_score = 0
          /\ recs[i].boosted_pop = GlobalMedian
    /\ \E i \in 1..Len(recs) :
          /\ recs[i].days_old > 14 /\ recs[i].smart_popularity_score = 0
          /\ recs[i].boosted_pop = 0
    /\ \E i \in 1..Len(recs) :
          /\ recs[i].days_old <= 14 /\ recs[i].smart_popularity_score > 0
          /\ recs[i].boosted_pop = 2 * recs[i].smart_popularity_score

\* the largest smart-popularity of the full table
TableMaxPop ==
    CHOOSE m \in { r.smart_popularity_score : r \in Range(df_model) } :
        \A r \in Range(df_model) : r.smart_popularity_score <= m

\* C9: every scored neighbour has pop_score in [0, 1]; with a positive
\* max_pop its boosted_pop lies in [0, max_pop], and with max_pop = 0 its
\* pop_score is 0.
C9_PopScoreBounded ==
    (RecommendAnswered /\ "score" \in steps)
        => \A i \in 1..Len(recs) :
              /\ recs[i].pop_score >= 0 /\ recs[i].pop_score <= 1000
              /\ TableMaxPop > 0
                     => (recs[i].boosted_pop >= 0 /\ recs[i].boosted_pop <= 2 * TableMaxPop)
              /\ TableMaxPop = 0 => recs[i].pop_score = 0

\* a boosted neighbour below the maximum in one table
C9_Witness ==
    /\ RecommendAnswered /\ "score" \in steps
    /\ TableMaxPop > 0
    /\ \E i \in 1..Len(recs) :
          /\ recs[i].smart_popularity_score = 0
          /\ recs[i].boosted_pop > 0
          /\ recs[i].pop_score > 0 /\ recs[i].pop_score < 1000
    /\ \E i \in 1..Len(recs) : recs[i].pop_score = 1000

\* neighbours scored against a table without any popularity
C9_WitnessNoPopularity ==
    /\ RecommendAnswered /\ "score" \in steps
    /\ TableMaxPop = 0
    /\ \E i \in 1..Len(recs) : recs[i].boosted_pop = 100 /\ recs[i].pop_score = 0

\* the columns a call computes for its own pool
RequestColumns ==
    { "dist_to_center", "similarity_score", "dist_km", "geo_score", "boosted_pop",
      "pop_score", "final_score" }

\* C10: no call changes the listings table, the transform or the centroid
\* index, the table never holds a per-request column, and a repeated query
\* gets the answer it got the first time.
C10_StartupStateUnchanged ==
    /\ [][UNCHANGED << df_model, preprocessor, location_centroids >>]_vars
    /\ [](\A i \in 1..Len(df_model) : DOMAIN df_model[i] \cap RequestColumns = {})
    /\ [](location_centroids = BuildCentroids(df_model))
    /\ []((RecommendAnswered /\ memo.set /\ request = memo.request)
             => response = memo.response)

\* the probe repeated after other calls, its pool annotated with distances
C10_Witness ==
    /\ RecommendAnswered /\ memo.set /\ memo.between
    /\ request = memo.request
    /\ response.status = "success" /\ response.count > 0
    /\ \E i \in 1..Len(base_pool) : "dist_to_center" \in DOMAIN base_pool[i]

====
